---- MODULE Spec2Model ----
(***************************************************************************)
(* Model of ooopsi's fatal-fault handlers (src/src/handlers.cpp): the      *)
(* HandlerSetup registration object, the POSIX signal handler, the Windows *)
(* exception filter and the std::terminate hook, each ending in a call of  *)
(* ooopsi::abort (the AbortSequencer).                                     *)
(***************************************************************************)
EXTENDS Integers, Sequences, FiniteSets, TLC

VARIABLES
    platform,             \* "posix" | "win32": which side of #ifdef _WIN32 was built
    s_handlersRegistered, \* the static flag of handlers.cpp
    terminateHandler,     \* "default" | "onTerminate"
    altStack,             \* "none" | "s_ALT_STACK": what sigaltstack registered
    sigHandlers,          \* signal -> "SIG_DFL" | "signalHandler" | "onAbort"
    exceptionFilter,      \* "default" | "onWindowsException"
    oscalls,              \* the registration calls made so far, in order
    nLive,                \* HandlerSetup objects currently alive
    stack,                \* frames of the handlers that were entered and never return
    workerStack,          \* the same for a thread other than the startup thread
    handoffs,             \* the calls of ooopsi::abort made so far, in order
    abortActive,          \* ooopsi::abort has been entered
    reports,              \* number of full reports emitted
    proc                  \* "running" | "reported" | "killed"

vars == <<platform, s_handlersRegistered, terminateHandler, altStack,
          sigHandlers, exceptionFilter, oscalls, nLive, stack, workerStack,
          handoffs, abortActive, reports, proc>>

regvars == <<s_handlersRegistered, terminateHandler, altStack, sigHandlers,
             exceptionFilter, oscalls>>

-----------------------------------------------------------------------------
(* Bounds of the model *)

\* HandlerSetup objects alive at once (the static s_setup plus further instances)
MaxObjects == 2
\* signalHandler frames that may be nested
MaxNest == 2
\* width of uintptr_t in the model (64 in the build)
PtrBits == 16

-----------------------------------------------------------------------------
(* Values *)

NULL == <<>>
Some(v) == <<v>>

SIGILL == 4
SIGABRT == 6
SIGBUS == 7
SIGFPE == 8
SIGSEGV == 11

\* for (int sig : { SIGABRT, SIGSEGV, SIGBUS, SIGILL, SIGFPE })
FatalSignals == <<SIGABRT, SIGSEGV, SIGBUS, SIGILL, SIGFPE>>

RECURSIVE Range(_)
Range(s) == IF s = <<>> THEN {} ELSE {Head(s)} \cup Range(Tail(s))

Signals == Range(FatalSignals)

\* snprintf(buf, size, ...): at most size - 1 characters are kept
Snprintf(size, text) ==
    IF Len(text) < size THEN text ELSE SubSeq(text, 1, size - 1)

\* strerror(errno)
Strerror(errno) ==
    CASE errno = "EFAULT" -> "Bad address"
      [] errno = "EINVAL" -> "Invalid argument"
      [] errno = "ENOMEM" -> "Cannot allocate memory"
      [] errno = "EPERM"  -> "Operation not permitted"
      [] OTHER -> "Unknown error"

Errnos == {"EFAULT", "EINVAL", "ENOMEM", "EPERM"}

\* size of s_ALT_STACK (internal.hpp)
s_ALT_STACK_SIZE == 8192

\* the values getenv("OOOPSI_DISABLE_HANDLERS") may return
EnvValues == {NULL, Some("1"), Some("0"), Some(""), Some("11"), Some("true")}

-----------------------------------------------------------------------------
(* ooopsi::abort, the AbortSequencer *)

Handoff(caller, ev, fmt, reason, printTrace, inSignalHandler, faultAddr) ==
    [caller |-> caller, ev |-> ev, fmt |-> fmt, reason |-> reason,
     printTrace |-> printTrace, inSignalHandler |-> inSignalHandler,
     faultAddr |-> faultAddr]

\* The call abort(reason, printTrace, inSignalHandler, faultAddr) recorded as
\* h, made on any thread.  abort never returns: the first call starts the report, a call made while
\* one is in progress ends the process at once.
AbortCall(h) ==
    /\ handoffs' = Append(handoffs, h)
    /\ IF abortActive
       THEN /\ proc' = "killed"
            /\ UNCHANGED <<abortActive, reports>>
       ELSE /\ abortActive' = TRUE
            /\ UNCHANGED <<proc, reports>>

\* abort called on the startup thread; frames is its stack with the caller's
\* frame marked as being in abort
Abort(frames, h) == stack' = frames /\ AbortCall(h)

\* abort emits the report and terminates the process
AbortFinish ==
    /\ proc = "running"
    /\ \/ stack # <<>> /\ stack[Len(stack)].pc = "abort"
       \/ workerStack # <<>> /\ workerStack[Len(workerStack)].pc = "abort"
    /\ reports' = reports + 1
    /\ proc' = "reported"
    /\ UNCHANGED <<platform, regvars, nLive, stack, workerStack, handoffs, abortActive>>

-----------------------------------------------------------------------------
(* HandlerSetup *)

\* any value of the variable disables, not only "1"
HandlersDisabled_AnyValue(opt) == opt # NULL

\* opt && strcmp(opt, "1") == 0
HandlersDisabled(opt) == opt # NULL /\ opt[1] = "1"

OsCall(call, arg) == [call |-> call, arg |-> arg]

\* the registration calls of the constructor, in program order
InstallSteps(pf) ==
    IF pf = "win32"
    THEN << OsCall("set_terminate", 0),
            OsCall("SetUnhandledExceptionFilter", 0),
            OsCall("signal", SIGABRT) >>
    ELSE << OsCall("set_terminate", 0),
            OsCall("sigaltstack", s_ALT_STACK_SIZE) >>
         \o [i \in 1..Len(FatalSignals) |-> OsCall("sigaction", FatalSignals[i])]

\* only sigaltstack and sigaction have their result checked
CanFail(c) == c.call \in {"sigaltstack", "sigaction"}

\* the steps that were executed when step failAt fails (0: none fails)
Executed(pf, failAt) ==
    IF failAt = 0 THEN InstallSteps(pf) ELSE SubSeq(InstallSteps(pf), 1, failAt)

Succeeded(pf, failAt) ==
    IF failAt = 0 THEN InstallSteps(pf) ELSE SubSeq(InstallSteps(pf), 1, failAt - 1)

FailPoints(pf) ==
    {0} \cup {i \in 1..Len(InstallSteps(pf)) : CanFail(InstallSteps(pf)[i])}

\* the message leaves out strerror(errno)
ErrMessage_NoErrorText(c, errno) ==
    Snprintf(256, c.call \o "(" \o ToString(c.arg) \o ") failed")

\* the err lambda: "%s(%d) failed: %s"
ErrMessage(c, errno) ==
    Snprintf(256, c.call \o "(" \o ToString(c.arg) \o ") failed: " \o Strerror(errno))

\* opt is what getenv("OOOPSI_DISABLE_HANDLERS") returns, failAt the registration
\* call that fails (0: none) and errno the error it sets
\* the constructor does not look at s_handlersRegistered
SkipInstall_IgnoresFlag(opt) == HandlersDisabled(opt)

\* the two early returns of the constructor
SkipInstall(opt) == HandlersDisabled(opt) \/ s_handlersRegistered

HandlerSetup(opt, failAt, errno) ==
    /\ proc = "running"
    /\ stack = <<>>
    /\ nLive < MaxObjects
    /\ nLive' = nLive + 1
    /\ IF SkipInstall(opt)
       THEN UNCHANGED <<regvars, stack, handoffs, abortActive, reports, proc>>
       ELSE LET done == Succeeded(platform, failAt)
                has(call) == \E i \in 1..Len(done) : done[i].call = call
            IN  /\ s_handlersRegistered' = TRUE
                /\ oscalls' = oscalls \o Executed(platform, failAt)
                /\ terminateHandler' =
                      IF has("set_terminate") THEN "onTerminate" ELSE terminateHandler
                /\ altStack' = IF has("sigaltstack") THEN "s_ALT_STACK" ELSE altStack
                /\ exceptionFilter' =
                      IF has("SetUnhandledExceptionFilter")
                      THEN "onWindowsException" ELSE exceptionFilter
                /\ sigHandlers' =
                      [s \in DOMAIN sigHandlers |->
                         IF \E i \in 1..Len(done) :
                               done[i].call = "sigaction" /\ done[i].arg = s
                         THEN "signalHandler"
                         ELSE IF \E i \in 1..Len(done) :
                                    done[i].call = "signal" /\ done[i].arg = s
                         THEN "onAbort"
                         ELSE sigHandlers[s]]
                /\ IF failAt = 0
                   THEN UNCHANGED <<stack, handoffs, abortActive, reports, proc>>
                   ELSE Abort(<<[fn |-> "HandlerSetup", pc |-> "abort", sig |-> 0,
                                 ev |-> [kind |-> "setup", step |-> failAt,
                                         errno |-> errno]]>>,
                              Handoff("HandlerSetup",
                                      [kind |-> "setup", step |-> failAt, errno |-> errno],
                                      NULL,
                                      ErrMessage(InstallSteps(platform)[failAt], errno),
                                      TRUE, FALSE, NULL))
    /\ UNCHANGED <<platform, workerStack>>

\* ~HandlerSetup: "skipping unregistering - not worth the hassle"
HandlerSetupDtor ==
    /\ proc = "running"
    /\ stack = <<>>
    /\ nLive > 0
    /\ nLive' = nLive - 1
    /\ UNCHANGED <<platform, regvars, stack, workerStack, handoffs, abortActive,
                   reports, proc>>

-----------------------------------------------------------------------------
(* formatReason, the ReasonFormatter (internal.hpp) *)

REASON_PREFIX == "!!! TERMINATING DUE TO "

HexDigit(d) == SubSeq("0123456789abcdef", d + 1, d + 1)

RECURSIVE ToHex(_)
ToHex(n) == IF n < 16 THEN HexDigit(n) ELSE ToHex(n \div 16) \o HexDigit(n % 16)

\* <prefix><CATEGORY>[ (<detail>)][, address 0x<hex>] in a buffer of 256
FormatReason(what, detail, addr) ==
    Snprintf(256,
             REASON_PREFIX \o what
             \o (IF detail # NULL THEN " (" \o detail[1] \o ")" ELSE "")
             \o (IF addr # NULL THEN ", address 0x" \o ToHex(addr[1]) ELSE ""))

-----------------------------------------------------------------------------
(* signalHandler, the POSIX backend *)

SEGV_MAPERR == 1
SEGV_ACCERR == 2
SEGV_BNDERR == 3
SEGV_PKUERR == 4
BUS_ADRALN == 1
BUS_ADRERR == 2
BUS_OBJERR == 3
BUS_MCEERR_AR == 4
BUS_MCEERR_AO == 5
ILL_ILLOPC == 1
ILL_ILLOPN == 2
ILL_ILLADR == 3
ILL_ILLTRP == 4
ILL_PRVOPC == 5
ILL_PRVREG == 6
ILL_COPROC == 7
ILL_BADSTK == 8
FPE_INTDIV == 1
FPE_INTOVF == 2
FPE_FLTDIV == 3
FPE_FLTOVF == 4
FPE_FLTUND == 5
FPE_FLTRES == 6
FPE_FLTINV == 7
FPE_FLTSUB == 8

\* constexpr auto rangeLimit = 1024
rangeLimit == 1024

\* uintptr_t arithmetic
PtrSub(a, b) == (a - b) % (2 ^ PtrBits)

\* the distance is compared with <= instead of <
NearStackEnd_Inclusive(stackAddr, stackPtr) ==
    stackAddr < stackPtr /\ PtrSub(stackPtr, stackAddr) <= rangeLimit

\* stackAddr < stackPtr && stackPtr - stackAddr < rangeLimit
NearStackEnd(stackAddr, stackPtr) ==
    stackAddr < stackPtr /\ PtrSub(stackPtr, stackAddr) < rangeLimit

\* switch (info->si_code) of case SIGSEGV
SegvDetail(ev) ==
    CASE ev.si_code = SEGV_MAPERR ->
            IF ev.ctx /\ NearStackEnd(ev.si_addr, ev.rsp)
            THEN Some("stack overflow")
            ELSE Some("address not mapped to object")
      [] ev.si_code = SEGV_ACCERR -> Some("invalid permissions for mapped object")
      [] ev.si_code = SEGV_BNDERR -> Some("failed address bound checks")
      [] ev.si_code = SEGV_PKUERR -> Some("access was denied by memory protection keys")
      [] OTHER -> NULL

\* switch (info->si_code) of case SIGBUS
BusDetail(ev) ==
    CASE ev.si_code = BUS_ADRALN -> Some("invalid address alignment")
      [] ev.si_code = BUS_ADRERR -> Some("nonexistent physical address")
      [] ev.si_code = BUS_OBJERR -> Some("object-specific hardware error")
      [] ev.si_code = BUS_MCEERR_AR ->
            Some("hardware memory error consumed on a machine check")
      [] ev.si_code = BUS_MCEERR_AO ->
            Some("hardware memory error detected in process but not consumed")
      [] OTHER -> NULL

\* switch (info->si_code) of case SIGILL
IllDetail(ev) ==
    CASE ev.si_code = ILL_ILLOPC -> Some("illegal opcode")
      [] ev.si_code = ILL_ILLOPN -> Some("illegal operand")
      [] ev.si_code = ILL_ILLADR -> Some("illegal addressing mode")
      [] ev.si_code = ILL_ILLTRP -> Some("illegal trap")
      [] ev.si_code = ILL_PRVOPC -> Some("privileged opcode")
      [] ev.si_code = ILL_PRVREG -> Some("privileged register")
      [] ev.si_code = ILL_COPROC -> Some("coprocessor error")
      [] ev.si_code = ILL_BADSTK -> Some("internal stack error")
      [] OTHER -> NULL

\* switch (info->si_code) of case SIGFPE
FpeDetail(ev) ==
    CASE ev.si_code = FPE_INTDIV -> Some("integer divide by zero")
      [] ev.si_code = FPE_INTOVF -> Some("integer overflow")
      [] ev.si_code = FPE_FLTDIV -> Some("floating-point divide by zero")
      [] ev.si_code = FPE_FLTOVF -> Some("floating-point overflow")
      [] ev.si_code = FPE_FLTUND -> Some("floating-point underflow")
      [] ev.si_code = FPE_FLTRES -> Some("floating-point inexact result")
      [] ev.si_code = FPE_FLTINV -> Some("floating-point invalid operation")
      [] ev.si_code = FPE_FLTSUB -> Some("subscript out of range")
      [] OTHER -> NULL

\* the cases of SIGSEGV and SIGBUS carry each other's text
SignalWhat_Swapped(sig) ==
    CASE sig = SIGABRT -> "std::abort()"
      [] sig = SIGSEGV -> "BUS ERROR"
      [] sig = SIGBUS  -> "SEGMENTATION FAULT"
      [] sig = SIGILL  -> "ILLEGAL INSTRUCTION"
      [] sig = SIGFPE  -> "FLOATING POINT ERROR"
      [] OTHER -> Snprintf(64, "SIGNAL " \o ToString(sig))

\* switch (sig): what
SignalWhat(sig) ==
    CASE sig = SIGABRT -> "std::abort()"
      [] sig = SIGSEGV -> "SEGMENTATION FAULT"
      [] sig = SIGBUS  -> "BUS ERROR"
      [] sig = SIGILL  -> "ILLEGAL INSTRUCTION"
      [] sig = SIGFPE  -> "FLOATING POINT ERROR"
      [] OTHER -> Snprintf(64, "SIGNAL " \o ToString(sig))

\* case SIGBUS looks its si_code up in the table of SIGILL
SignalDetail_BusAsIll(ev) ==
    CASE ev.sig = SIGSEGV -> SegvDetail(ev)
      [] ev.sig = SIGBUS  -> IllDetail(ev)
      [] ev.sig = SIGILL  -> IllDetail(ev)
      [] ev.sig = SIGFPE  -> FpeDetail(ev)
      [] OTHER -> NULL

\* switch (sig): detail
SignalDetail(ev) ==
    CASE ev.sig = SIGSEGV -> SegvDetail(ev)
      [] ev.sig = SIGBUS  -> BusDetail(ev)
      [] ev.sig = SIGILL  -> IllDetail(ev)
      [] ev.sig = SIGFPE  -> FpeDetail(ev)
      [] OTHER -> NULL

\* switch (sig): addr = &info->si_addr
SignalAddr(ev) ==
    IF ev.sig \in {SIGSEGV, SIGBUS, SIGILL, SIGFPE} THEN Some(ev.si_addr) ELSE NULL

\* what, detail and addr as passed to formatReason
SignalReason(ev) ==
    [what |-> SignalWhat(ev.sig), detail |-> SignalDetail(ev), addr |-> SignalAddr(ev)]

\* faultAddr = &context->uc_mcontext.gregs[REG_RIP] if (context)
SignalFaultAddr(ev) == IF ev.ctx THEN Some(ev.rip) ELSE NULL

\* abort(reason, true, true, faultAddr)
SignalPrintTrace(ev) == TRUE

\* the whole of signalHandler: classify, format, hand off
SignalHandoff(ev) ==
    LET r == SignalReason(ev)
    IN  Handoff("signalHandler", ev, Some(r),
                FormatReason(r.what, r.detail, r.addr),
                SignalPrintTrace(ev), TRUE, SignalFaultAddr(ev))

\* the handler is installed with SA_NODEFER as well
SaFlags_NoDefer == {"SA_ONSTACK", "SA_SIGINFO", "SA_NODEFER"}

\* act.sa_flags = SA_ONSTACK | SA_SIGINFO
SaFlags == {"SA_ONSTACK", "SA_SIGINFO"}

\* sigemptyset(&act.sa_mask)
SaMask == {}

\* the signals the kernel blocks while the handler of sig runs
BlockedDuring(sig) == SaMask \cup (IF "SA_NODEFER" \in SaFlags THEN {} ELSE {sig})

HandlerFrames == {i \in 1..Len(stack) : stack[i].fn = "signalHandler"}

Blocked == UNION {BlockedDuring(stack[i].sig) : i \in HandlerFrames}

\* a fault as the kernel describes it to the handler, on the startup thread
\* with room left on its stack
SigEvent(sig, code, addr, ctx, rsp) ==
    [kind |-> "signal", sig |-> sig, si_code |-> code, si_addr |-> addr,
     ctx |-> ctx, rsp |-> rsp, rip |-> 4660, thread |-> "main", exhausted |-> FALSE]

\* the startup thread, which runs the static initializers, and one more
Threads == {"main", "worker"}

\* the same fault on thread t; exhausted: the thread's own stack has no room
\* left for the frame of a signal handler
OnThread(ev, t, exhausted) == [ev EXCEPT !.thread = t, !.exhausted = exhausted]

\* the alternate stack registered for thread t: sigaltstack registers it for
\* the calling thread only, and the constructor runs on the startup thread
AltStackOf(t) == IF t = "main" THEN altStack ELSE "none"

\* the memory the kernel builds the handler's frame on
HandlerStack(ev) ==
    IF "SA_ONSTACK" \in SaFlags /\ AltStackOf(ev.thread) # "none"
    THEN AltStackOf(ev.thread)
    ELSE "stack of " \o ev.thread

\* the kernel can build the handler's frame; if it cannot, it ends the process
CanEnter(ev) == ~ev.exhausted \/ HandlerStack(ev) # "stack of " \o ev.thread

\* the si_code values tried for each signal: the table's, 0 (SI_USER) and one
\* past the table
SigCodes(sig) ==
    CASE sig = SIGSEGV -> 0..(SEGV_PKUERR + 1)
      [] sig = SIGBUS  -> 0..(BUS_MCEERR_AO + 1)
      [] sig = SIGILL  -> 0..(ILL_BADSTK + 1)
      [] sig = SIGFPE  -> 0..(FPE_FLTSUB + 1)
      [] OTHER -> {0, -6}

StackPointers == {512, 2048}

\* faulting addresses around the stack pointer and at both ends of the address space
ProbeAddrs(sp) ==
    {a \in {0, sp - rangeLimit - 1, sp - rangeLimit, sp - rangeLimit + 1,
            sp - 1, sp, sp + 1, 2 ^ PtrBits - 1} : a >= 0}

\* the faults a program may raise
SignalEvents ==
    UNION {{SigEvent(SIGSEGV, SEGV_MAPERR, a, c, sp) : a \in ProbeAddrs(sp), c \in BOOLEAN} :
              sp \in StackPointers}
    \cup UNION {{SigEvent(s, code, 0, TRUE, 2048) : code \in SigCodes(s)} : s \in Signals}

\* the faults raised while a handler is running: one of each signal
NestedSignalEvents == {SigEvent(s, 1, 0, TRUE, 2048) : s \in Signals}

\* a fault that leaves no room on the stack of the thread it happens on:
\* runaway recursion touches the page just below the stack pointer
StackExhaustion(t) == OnThread(SigEvent(SIGSEGV, SEGV_MAPERR, 2040, TRUE, 2048), t, TRUE)

\* the faults of the other thread: stack exhaustion and an ordinary fault
WorkerSignalEvents ==
    {StackExhaustion("worker"),
     OnThread(SigEvent(SIGSEGV, SEGV_MAPERR, 0, TRUE, 2048), "worker", FALSE),
     OnThread(SigEvent(SIGFPE, FPE_INTDIV, 0, TRUE, 2048), "worker", FALSE)}

\* The kernel delivers a fatal signal to the program or to a running handler.
Deliver(ev) ==
    /\ proc = "running"
    /\ platform = "posix"
    /\ ev \in (IF stack = <<>> THEN SignalEvents \cup {StackExhaustion("main")}
                               ELSE NestedSignalEvents)
    /\ IF sigHandlers[ev.sig] = "SIG_DFL" \/ ev.sig \in Blocked \/ ~CanEnter(ev)
       THEN \* default action; a fault whose signal is blocked, or whose handler
            \* cannot be entered, is forced to it
            /\ proc' = "killed"
            /\ UNCHANGED <<stack, handoffs, abortActive, reports>>
       ELSE /\ Cardinality(HandlerFrames) < MaxNest
            /\ stack' = Append(stack, [fn |-> "signalHandler", pc |-> "entry",
                                       sig |-> ev.sig, ev |-> ev])
            /\ UNCHANGED <<proc, handoffs, abortActive, reports>>
    /\ UNCHANGED <<platform, regvars, nLive, workerStack>>

\* signalHandler runs up to its call of abort
SignalHandlerRun ==
    /\ proc = "running"
    /\ stack # <<>>
    /\ LET top == stack[Len(stack)]
       IN  /\ top.fn = "signalHandler"
           /\ top.pc = "entry"
           /\ Abort([stack EXCEPT ![Len(stack)].pc = "abort"], SignalHandoff(top.ev))
    /\ UNCHANGED <<platform, regvars, nLive, workerStack>>

\* The kernel delivers a fatal signal to the other thread.  The signals
\* blocked are those of the handlers running on that thread; the thread
\* raises no further fault once it is in its handler.
DeliverToThread(ev) ==
    /\ proc = "running"
    /\ platform = "posix"
    /\ ev \in WorkerSignalEvents
    /\ workerStack = <<>>
    /\ IF sigHandlers[ev.sig] = "SIG_DFL" \/ ~CanEnter(ev)
       THEN /\ proc' = "killed"
            /\ UNCHANGED <<workerStack, handoffs, abortActive, reports>>
       ELSE /\ workerStack' = <<[fn |-> "signalHandler", pc |-> "entry",
                                 sig |-> ev.sig, ev |-> ev]>>
            /\ UNCHANGED <<proc, handoffs, abortActive, reports>>
    /\ UNCHANGED <<platform, regvars, nLive, stack>>

\* signalHandler on the other thread runs up to its call of abort
ThreadHandlerRun ==
    /\ proc = "running"
    /\ workerStack # <<>>
    /\ workerStack[1].pc = "entry"
    /\ workerStack' = [workerStack EXCEPT ![1].pc = "abort"]
    /\ AbortCall(SignalHandoff(workerStack[1].ev))
    /\ UNCHANGED <<platform, regvars, nLive, stack>>

-----------------------------------------------------------------------------
(* onWindowsException and onAbort, the Windows backend *)

\* an exception code: the name the switch matches and its value as %lu prints it
ExcCode(name, dec) == [name |-> name, dec |-> dec]

EXCEPTION_ACCESS_VIOLATION == ExcCode("EXCEPTION_ACCESS_VIOLATION", "3221225477")
EXCEPTION_ARRAY_BOUNDS_EXCEEDED == ExcCode("EXCEPTION_ARRAY_BOUNDS_EXCEEDED", "3221225612")
EXCEPTION_BREAKPOINT == ExcCode("EXCEPTION_BREAKPOINT", "2147483651")
EXCEPTION_DATATYPE_MISALIGNMENT == ExcCode("EXCEPTION_DATATYPE_MISALIGNMENT", "2147483650")
EXCEPTION_FLT_DENORMAL_OPERAND == ExcCode("EXCEPTION_FLT_DENORMAL_OPERAND", "3221225613")
EXCEPTION_FLT_DIVIDE_BY_ZERO == ExcCode("EXCEPTION_FLT_DIVIDE_BY_ZERO", "3221225614")
EXCEPTION_FLT_INEXACT_RESULT == ExcCode("EXCEPTION_FLT_INEXACT_RESULT", "3221225615")
EXCEPTION_FLT_INVALID_OPERATION == ExcCode("EXCEPTION_FLT_INVALID_OPERATION", "3221225616")
EXCEPTION_FLT_OVERFLOW == ExcCode("EXCEPTION_FLT_OVERFLOW", "3221225617")
EXCEPTION_FLT_STACK_CHECK == ExcCode("EXCEPTION_FLT_STACK_CHECK", "3221225618")
EXCEPTION_FLT_UNDERFLOW == ExcCode("EXCEPTION_FLT_UNDERFLOW", "3221225619")
EXCEPTION_ILLEGAL_INSTRUCTION == ExcCode("EXCEPTION_ILLEGAL_INSTRUCTION", "3221225501")
EXCEPTION_IN_PAGE_ERROR == ExcCode("EXCEPTION_IN_PAGE_ERROR", "3221225478")
EXCEPTION_INT_DIVIDE_BY_ZERO == ExcCode("EXCEPTION_INT_DIVIDE_BY_ZERO", "3221225620")
EXCEPTION_INT_OVERFLOW == ExcCode("EXCEPTION_INT_OVERFLOW", "3221225621")
EXCEPTION_INVALID_DISPOSITION == ExcCode("EXCEPTION_INVALID_DISPOSITION", "3221225510")
EXCEPTION_NONCONTINUABLE_EXCEPTION ==
    ExcCode("EXCEPTION_NONCONTINUABLE_EXCEPTION", "3221225509")
EXCEPTION_PRIV_INSTRUCTION == ExcCode("EXCEPTION_PRIV_INSTRUCTION", "3221225622")
EXCEPTION_SINGLE_STEP == ExcCode("EXCEPTION_SINGLE_STEP", "2147483652")
EXCEPTION_STACK_OVERFLOW == ExcCode("EXCEPTION_STACK_OVERFLOW", "3221225725")

\* codes the switch has no case for: a C++ throw, a guard page hit
UnrecognizedCodes ==
    {ExcCode("0xE06D7363", "3765269347"), ExcCode("STATUS_GUARD_PAGE_VIOLATION", "2147483649")}

WinFixed(what, detail) == [what |-> what, detail |-> detail, addr |-> NULL]

\* switch (excRec.ExceptionCode): what, detail and addr as passed to formatReason
WinReason(ev) ==
    CASE ev.code = EXCEPTION_ACCESS_VIOLATION ->
            [what |-> "SEGMENTATION FAULT", detail |-> NULL,
             addr |-> IF ev.nparams >= 2 THEN Some(ev.info[2]) ELSE NULL]
      [] ev.code = EXCEPTION_ARRAY_BOUNDS_EXCEEDED ->
            WinFixed("EXCEPTION_ARRAY_BOUNDS_EXCEEDED", NULL)
      [] ev.code = EXCEPTION_BREAKPOINT -> WinFixed("EXCEPTION_BREAKPOINT", NULL)
      [] ev.code = EXCEPTION_DATATYPE_MISALIGNMENT ->
            WinFixed("EXCEPTION_DATATYPE_MISALIGNMENT", NULL)
      [] ev.code = EXCEPTION_FLT_DENORMAL_OPERAND ->
            WinFixed("FLOATING POINT ERROR", Some("floating-point denormal operand"))
      [] ev.code = EXCEPTION_FLT_DIVIDE_BY_ZERO ->
            WinFixed("FLOATING POINT ERROR", Some("floating-point divide by zero"))
      [] ev.code = EXCEPTION_FLT_INEXACT_RESULT ->
            WinFixed("FLOATING POINT ERROR", Some(" (floating-point inexact result)"))
      [] ev.code = EXCEPTION_FLT_INVALID_OPERATION ->
            WinFixed("FLOATING POINT ERROR", Some("floating-point invalid operation"))
      [] ev.code = EXCEPTION_FLT_OVERFLOW ->
            WinFixed("FLOATING POINT ERROR", Some("floating-point overflow"))
      [] ev.code = EXCEPTION_FLT_STACK_CHECK ->
            WinFixed("FLOATING POINT ERROR", Some("floating-point stack over/underflow"))
      [] ev.code = EXCEPTION_FLT_UNDERFLOW ->
            WinFixed("FLOATING POINT ERROR", Some("floating-point underflow"))
      [] ev.code = EXCEPTION_ILLEGAL_INSTRUCTION -> WinFixed("ILLEGAL INSTRUCTION", NULL)
      [] ev.code = EXCEPTION_IN_PAGE_ERROR ->
            IF ev.nparams >= 3
            THEN [what |-> "PAGE ERROR",
                  detail |-> Some(Snprintf(64, "NTSTATUS=" \o ToString(ev.info[3]))),
                  addr |-> Some(ev.info[2])]
            ELSE WinFixed("PAGE ERROR", NULL)
      [] ev.code = EXCEPTION_INT_DIVIDE_BY_ZERO ->
            WinFixed("FLOATING POINT ERROR", Some("integer divide by zero"))
      [] ev.code = EXCEPTION_INT_OVERFLOW ->
            WinFixed("FLOATING POINT ERROR", Some("integer overflow"))
      [] ev.code = EXCEPTION_INVALID_DISPOSITION ->
            WinFixed("INVALID EXCEPTION HANDLER DISPOSITION", NULL)
      [] ev.code = EXCEPTION_NONCONTINUABLE_EXCEPTION ->
            WinFixed("NONCONTINUABLE EXCEPTION", NULL)
      [] ev.code = EXCEPTION_PRIV_INSTRUCTION ->
            WinFixed("EXCEPTION_PRIV_INSTRUCTION", NULL)
      [] ev.code = EXCEPTION_SINGLE_STEP -> WinFixed("EXCEPTION_SINGLE_STEP", NULL)
      [] ev.code = EXCEPTION_STACK_OVERFLOW -> WinFixed("???", NULL)
      [] OTHER ->
            WinFixed("Unrecognized Exception",
                     Some(Snprintf(64, "exception code = " \o ev.code.dec)))

\* the whole of onWindowsException: classify, format, hand off
WinHandoff(ev) ==
    IF ev.code # EXCEPTION_STACK_OVERFLOW
    THEN LET r == WinReason(ev)
         IN  Handoff("onWindowsException", ev, Some(r),
                     FormatReason(r.what, r.detail, r.addr),
                     TRUE, TRUE, Some(ev.excAddr))
    ELSE Handoff("onWindowsException", ev, NULL,
                 REASON_PREFIX \o "SEGMENTATION FAULT (stack overflow)",
                 FALSE, TRUE, NULL)

\* the whole of onAbort
OnAbortHandoff(ev) ==
    Handoff("onAbort", ev, Some(WinFixed("std::abort()", NULL)),
            FormatReason("std::abort()", NULL, NULL), TRUE, TRUE, NULL)

WinEvent(code, nparams, info) ==
    [kind |-> "exception", code |-> code, nparams |-> nparams, info |-> info,
     excAddr |-> 4660]

WinCodes ==
    {EXCEPTION_ACCESS_VIOLATION, EXCEPTION_ARRAY_BOUNDS_EXCEEDED, EXCEPTION_BREAKPOINT,
     EXCEPTION_DATATYPE_MISALIGNMENT, EXCEPTION_FLT_DENORMAL_OPERAND,
     EXCEPTION_FLT_DIVIDE_BY_ZERO, EXCEPTION_FLT_INEXACT_RESULT,
     EXCEPTION_FLT_INVALID_OPERATION, EXCEPTION_FLT_OVERFLOW, EXCEPTION_FLT_STACK_CHECK,
     EXCEPTION_FLT_UNDERFLOW, EXCEPTION_ILLEGAL_INSTRUCTION, EXCEPTION_IN_PAGE_ERROR,
     EXCEPTION_INT_DIVIDE_BY_ZERO, EXCEPTION_INT_OVERFLOW, EXCEPTION_INVALID_DISPOSITION,
     EXCEPTION_NONCONTINUABLE_EXCEPTION, EXCEPTION_PRIV_INSTRUCTION,
     EXCEPTION_SINGLE_STEP, EXCEPTION_STACK_OVERFLOW} \cup UnrecognizedCodes

\* the exceptions a program may raise
WinEvents ==
    {WinEvent(c, 0, <<0, 0, 0>>) : c \in WinCodes}
    \cup {WinEvent(c, n, <<1, 74565, 5>>) :
            c \in {EXCEPTION_ACCESS_VIOLATION, EXCEPTION_IN_PAGE_ERROR}, n \in 1..3}

FramesOf(fn) == {i \in 1..Len(stack) : stack[i].fn = fn}

Frame(fn, ev) == [fn |-> fn, pc |-> "abort", sig |-> 0, ev |-> ev]

\* An unhandled structured exception reaches the filter, which runs up to its
\* call of abort; one raised inside the filter ends the process.
RaiseException(ev) ==
    /\ proc = "running"
    /\ platform = "win32"
    /\ IF exceptionFilter = "default" \/ FramesOf("onWindowsException") # {}
       THEN /\ proc' = "killed"
            /\ UNCHANGED <<stack, handoffs, abortActive, reports>>
       ELSE Abort(Append(stack, Frame("onWindowsException", ev)), WinHandoff(ev))
    /\ UNCHANGED <<platform, regvars, nLive, workerStack>>

\* std::abort() raises SIGABRT; the C runtime resets the handler before calling it
RaiseAbort ==
    /\ proc = "running"
    /\ platform = "win32"
    /\ IF sigHandlers[SIGABRT] = "SIG_DFL" \/ FramesOf("onAbort") # {}
       THEN /\ proc' = "killed"
            /\ UNCHANGED <<stack, handoffs, abortActive, reports>>
       ELSE LET ev == [kind |-> "abort"]
            IN  Abort(Append(stack, Frame("onAbort", ev)), OnAbortHandoff(ev))
    /\ UNCHANGED <<platform, regvars, nLive, workerStack>>

-----------------------------------------------------------------------------
(* onTerminate, the std::terminate hook *)

\* the exceptions a program may let escape
ObjectExc(type, bases, mangled, what, code) ==
    [kind |-> "object", type |-> type, bases |-> bases, mangled |-> mangled,
     what |-> what, code |-> code, text |-> NULL]

NoCode == [message |-> "", category |-> "", value |-> 0]

SysErrBrokenPipe ==
    ObjectExc("std::system_error", {"std::system_error", "std::runtime_error", "std::exception"},
              "St12system_error", "Broken pipe",
              [message |-> "Broken pipe", category |-> "generic", value |-> 32])

IosFailure ==
    ObjectExc("std::ios_base::failure",
              {"std::ios_base::failure", "std::system_error", "std::runtime_error",
               "std::exception"},
              "NSt8ios_base7failureB5cxx11E", "basic_ios::clear: iostream error",
              [message |-> "iostream error", category |-> "iostream", value |-> 1])

RuntimeErrorWhoopsi ==
    ObjectExc("std::runtime_error", {"std::runtime_error", "std::exception"},
              "St13runtime_error", "whoopsi!", NoCode)

BadAlloc ==
    ObjectExc("std::bad_alloc", {"std::bad_alloc", "std::exception"},
              "St9bad_alloc", "std::bad_alloc", NoCode)

UserObject == ObjectExc("Foo", {"Foo"}, "3Foo", "", NoCode)

CStringExc(text) ==
    [kind |-> "cstring", type |-> "const char*", bases |-> {}, mangled |-> "PKc",
     what |-> "", code |-> NoCode, text |-> text]

IntExc ==
    [kind |-> "int", type |-> "int", bases |-> {}, mangled |-> "i",
     what |-> "", code |-> NoCode, text |-> NULL]

Exceptions ==
    {SysErrBrokenPipe, IosFailure, RuntimeErrorWhoopsi, BadAlloc, UserObject,
     CStringExc(Some("This is my error text")), CStringExc(NULL), IntExc}

\* demangle (internal.hpp): the readable class name, or the mangled one
Demangle(mangled) ==
    CASE mangled = "St12system_error" -> "std::system_error"
      [] mangled = "NSt8ios_base7failureB5cxx11E" -> "std::ios_base::failure[abi:cxx11]"
      [] mangled = "St13runtime_error" -> "std::runtime_error"
      [] mangled = "St9bad_alloc" -> "std::bad_alloc"
      [] OTHER -> mangled

\* catch (const std::exception&) comes before catch (const std::system_error&)
Probes_GenericFirst == <<"std::exception", "std::system_error", "const char*", "...">>

\* the catch clauses of onTerminate, in program order
Probes == <<"std::system_error", "std::exception", "const char*", "...">>

\* whether a catch clause accepts the exception
Catches(probe, exc) ==
    CASE probe = "..." -> TRUE
      [] probe = "const char*" -> exc.kind = "cstring"
      [] OTHER -> exc.kind = "object" /\ probe \in exc.bases

\* the first catch clause that accepts the exception
Caught(exc) ==
    Probes[CHOOSE i \in 1..Len(Probes) :
              /\ Catches(Probes[i], exc)
              /\ \A j \in 1..(i - 1) : ~Catches(Probes[j], exc)]

\* the body of the catch clause that was entered: detail[128]
TerminateDetail(exc) ==
    LET probe == Caught(exc)
    IN  CASE probe = "std::system_error" ->
                Snprintf(128, "std::system_error: \"" \o exc.code.message \o "\" ("
                              \o exc.code.category \o ":" \o ToString(exc.code.value) \o ")")
          [] probe = "std::exception" ->
                Snprintf(128, Snprintf(128, Demangle(exc.mangled)) \o ": \""
                              \o exc.what \o "\"")
          [] probe = "const char*" ->
                Snprintf(128, "exception (const char*): \""
                              \o (IF exc.text = NULL THEN "<null>" ELSE exc.text[1])
                              \o "\"")
          [] OTHER -> "unknown exception"

\* if (curFunc >= func.symbolAddress && curFunc - func.symbolAddress <= 64)
NearSymbol(curFunc, symbolAddress) ==
    curFunc >= symbolAddress /\ PtrSub(curFunc, symbolAddress) <= 64

\* possibleCallers with the addresses GetProcAddress resolved
PossibleCallers(ev) ==
    << [symbolName |-> "__cxa_pure_virtual", symbolAddress |-> ev.pureAddr,
        abortMessage |-> "PURE VIRTUAL FUNCTION CALL"],
       [symbolName |-> "__cxa_deleted_virtual", symbolAddress |-> ev.deletedAddr,
        abortMessage |-> "DELETED VIRTUAL FUNCTION CALL"] >>

\* the (frame, caller) pairs that match, frames outermost loop
ProbeMatches(ev) ==
    {<<i, k>> \in (1..Len(ev.frames)) \X (1..2) :
        NearSymbol(ev.frames[i], PossibleCallers(ev)[k].symbolAddress)}

FirstMatch(ev) ==
    CHOOSE m \in ProbeMatches(ev) :
        \A n \in ProbeMatches(ev) : m[1] < n[1] \/ (m[1] = n[1] /\ m[2] <= n[2])

\* the whole of onTerminate: classify, format, hand off
TerminateHandoff(pf, ev) ==
    IF ev.exc # NULL
    THEN LET r == WinFixed("std::terminate()", Some(TerminateDetail(ev.exc[1])))
         IN  Handoff("onTerminate", ev, Some(r), FormatReason(r.what, r.detail, r.addr),
                     TRUE, FALSE, NULL)
    ELSE IF pf = "win32" /\ ev.libstdcpp /\ ProbeMatches(ev) # {}
    THEN LET m == FirstMatch(ev)
             r == [what |-> PossibleCallers(ev)[m[2]].abortMessage, detail |-> NULL,
                   addr |-> Some(ev.frames[m[1]])]
         IN  Handoff("onTerminate", ev, Some(r), FormatReason(r.what, r.detail, r.addr),
                     TRUE, FALSE, Some(ev.frames[m[1]]))
    ELSE LET r == WinFixed("std::terminate()", NULL)
         IN  Handoff("onTerminate", ev, Some(r), FormatReason(r.what, r.detail, r.addr),
                     TRUE, FALSE, NULL)

TermEvent(exc, frames, lib, pureAddr, deletedAddr) ==
    [kind |-> "terminate", exc |-> exc, frames |-> frames, libstdcpp |-> lib,
     pureAddr |-> pureAddr, deletedAddr |-> deletedAddr]

\* static constexpr DWORD lookBack = 4
lookBack == 4

\* the return addresses RtlCaptureStackBackTrace may report
BacktraceAddrs == {4096, 4160, 4161, 8192}

Backtraces == UNION {[1..n -> BacktraceAddrs] : n \in 0..2} \cup
              {<<8192, 8192, 8192, a>> : a \in BacktraceAddrs}

\* std::terminate is called with an exception in flight, or without one
TerminateEvents ==
    {TermEvent(Some(e), <<>>, TRUE, 4096, 8192) : e \in Exceptions}
    \cup {TermEvent(NULL, f, TRUE, 4096, 8192) : f \in Backtraces}
    \cup {TermEvent(NULL, <<4160>>, lib, p, d) :
            lib \in BOOLEAN, p \in {0, 4096, 4112}, d \in {0, 4128}}

\* std::terminate: the program calls the installed terminate handler, which runs
\* up to its call of abort; the default handler ends the process.
Terminate(ev) ==
    /\ proc = "running"
    /\ stack = <<>>
    /\ IF terminateHandler = "default"
       THEN /\ proc' = "killed"
            /\ UNCHANGED <<stack, handoffs, abortActive, reports>>
       ELSE Abort(<<Frame("onTerminate", ev)>>, TerminateHandoff(platform, ev))
    /\ UNCHANGED <<platform, regvars, nLive, workerStack>>

-----------------------------------------------------------------------------

\* the process before its static initializers run (s_setup among them)
Init ==
    /\ platform \in {"posix", "win32"}
    /\ s_handlersRegistered = FALSE
    /\ terminateHandler = "default"
    /\ altStack = "none"
    /\ sigHandlers = [s \in Signals |-> "SIG_DFL"]
    /\ exceptionFilter = "default"
    /\ oscalls = <<>>
    /\ nLive = 0
    /\ stack = <<>>
    /\ workerStack = <<>>
    /\ handoffs = <<>>
    /\ abortActive = FALSE
    /\ reports = 0
    /\ proc = "running"

Next ==
    \/ \E opt \in EnvValues, f \in FailPoints(platform), e \in Errnos :
          HandlerSetup(opt, f, e)
    \/ HandlerSetupDtor
    \/ \E ev \in SignalEvents \cup {StackExhaustion("main")} \cup NestedSignalEvents :
          Deliver(ev)
    \/ SignalHandlerRun
    \/ \E ev \in WorkerSignalEvents : DeliverToThread(ev)
    \/ ThreadHandlerRun
    \/ \E ev \in WinEvents : RaiseException(ev)
    \/ RaiseAbort
    \/ \E ev \in TerminateEvents : Terminate(ev)
    \/ AbortFinish

Spec == Init /\ [][Next]_vars

\* a handler that was entered keeps running: nothing in it waits
FairSpec ==
    Spec /\ WF_vars(SignalHandlerRun) /\ WF_vars(ThreadHandlerRun) /\ WF_vars(AbortFinish)

-----------------------------------------------------------------------------
(* Properties *)

Terminated == proc # "running"

\* everything the constructor installs on this platform is installed
AllInstalled ==
    /\ s_handlersRegistered
    /\ terminateHandler = "onTerminate"
    /\ oscalls = InstallSteps(platform)
    /\ IF platform = "posix"
       THEN altStack = "s_ALT_STACK" /\ \A s \in Signals : sigHandlers[s] = "signalHandler"
       ELSE exceptionFilter = "onWindowsException" /\ sigHandlers[SIGABRT] = "onAbort"

IsCtorStep == nLive' = nLive + 1
IsDtorStep == nLive' = nLive - 1

\* C1: installation happens in one construction only.  A construction that
\* finds the handlers registered, and every destruction, makes no registration
\* call and leaves the flag and the registrations as they are; registration
\* calls are only ever made by a construction that found nothing registered,
\* and a construction without the override that finds nothing registered
\* makes them.
C1_InstallOnce ==
    /\ [][(IsCtorStep /\ s_handlersRegistered) => UNCHANGED regvars]_vars
    /\ [][IsDtorStep => UNCHANGED regvars]_vars
    /\ [][oscalls' # oscalls =>
            IsCtorStep /\ ~s_handlersRegistered /\ oscalls = <<>>]_vars
    /\ [][s_handlersRegistered => s_handlersRegistered']_vars
    /\ [][(\E f \in FailPoints(platform), e \in Errnos : HandlerSetup(NULL, f, e))
            /\ ~s_handlersRegistered
            => s_handlersRegistered' /\ oscalls' # <<>>]_vars

\* C1 witness: constructions happened after the one that installed
C1_Witness ==
    nLive = MaxObjects /\ nLive >= 2 /\ AllInstalled /\ proc = "running"

\* C2: a construction that reads "1" changes nothing but the object count; a
\* construction that reads no value or any other value, and whose
\* registration calls succeed, leaves everything installed; and as long as
\* nothing is registered a fault ends the process by the OS default, with no
\* hand-off and no report.
C2_EnvOverride ==
    /\ [][(\E f \in FailPoints(platform), e \in Errnos :
              HandlerSetup(Some("1"), f, e))
            => UNCHANGED <<regvars, stack, handoffs, abortActive, reports, proc>>]_vars
    /\ [][(\E opt \in EnvValues \ {Some("1")}, e \in Errnos : HandlerSetup(opt, 0, e))
            => AllInstalled']_vars
    /\ [](~s_handlersRegistered => handoffs = <<>> /\ reports = 0)
    /\ [][(~s_handlersRegistered /\ ~Terminated /\ Terminated')
            => proc' = "killed" /\ handoffs' = <<>>]_vars

\* C2 witness: a construction under "1" was followed by a fault that the OS ended
C2_Witness ==
    nLive > 0 /\ ~s_handlersRegistered /\ oscalls = <<>> /\ proc = "killed"


HandoffsOf(caller) == {i \in 1..Len(handoffs) : handoffs[i].caller = caller}

StartsWith(text, prefix) ==
    Len(text) >= Len(prefix) /\ SubSeq(text, 1, Len(prefix)) = prefix

\* C3 (as claimed): every fault handler hands a stack overflow to abort with
\* the detail "stack overflow" and without asking for a stack trace, and every
\* other fault with a stack trace asked for.
C3_StackOverflowSkipsTrace ==
    \A i \in HandoffsOf("signalHandler") \cup HandoffsOf("onWindowsException") :
        LET h == handoffs[i]
            overflow ==
                IF h.caller = "signalHandler"
                THEN h.fmt[1].detail = Some("stack overflow")
                ELSE h.ev.code = EXCEPTION_STACK_OVERFLOW
        IN  IF overflow
            THEN /\ StartsWith(h.reason,
                               REASON_PREFIX \o "SEGMENTATION FAULT (stack overflow)")
                 /\ ~h.printTrace
            ELSE h.printTrace

\* the category the taxonomy gives each fatal signal
Taxonomy(sig) ==
    CASE sig = 6  -> "std::abort()"
      [] sig = 11 -> "SEGMENTATION FAULT"
      [] sig = 7  -> "BUS ERROR"
      [] sig = 4  -> "ILLEGAL INSTRUCTION"
      [] sig = 8  -> "FLOATING POINT ERROR"

TopIs(fn, pc) ==
    stack # <<>> /\ stack[Len(stack)].fn = fn /\ stack[Len(stack)].pc = pc

\* C4: every hand-off of signalHandler carries the category of the signal it
\* was entered for; a handler that is past its entry has handed off exactly
\* once; a process that ends with the report of a single, uninterrupted
\* handler, no other thread being in one, has made exactly one hand-off, that
\* handler's; a handler frame is
\* never left and nothing runs after the process ended; and a handler that
\* was entered leads to the end of the process.
C4_SignalHandoff ==
    /\ [](\A i \in HandoffsOf("signalHandler") :
             /\ handoffs[i].fmt # NULL
             /\ handoffs[i].fmt[1].what = Taxonomy(handoffs[i].ev.sig)
             /\ StartsWith(handoffs[i].reason,
                           REASON_PREFIX \o Taxonomy(handoffs[i].ev.sig))
             /\ handoffs[i].inSignalHandler)
    /\ [](Cardinality(HandoffsOf("signalHandler"))
            = Cardinality({i \in HandlerFrames : stack[i].pc = "abort"})
              + Cardinality({i \in 1..Len(workerStack) : workerStack[i].pc = "abort"}))
    /\ []((proc = "reported" /\ Len(stack) = 1 /\ stack[1].fn = "signalHandler"
             /\ workerStack = <<>>)
            => /\ Len(handoffs) = 1
               /\ handoffs[1].ev = stack[1].ev
               /\ handoffs[1].caller = "signalHandler"
               /\ reports = 1)
    /\ [][/\ ~Terminated
          /\ Len(stack') >= Len(stack)
          /\ \A i \in 1..Len(stack) :
                stack'[i].fn = stack[i].fn /\ stack'[i].sig = stack[i].sig]_vars
    /\ (TopIs("signalHandler", "entry") ~> Terminated)

\* C4 witness: a bus error was delivered, handed off as BUS ERROR and reported
C4_Witness ==
    /\ proc = "reported"
    /\ Len(stack) = 1
    /\ stack[1].fn = "signalHandler"
    /\ stack[1].sig = SIGBUS
    /\ Len(handoffs) = 1
    /\ handoffs[1].fmt[1].what = "BUS ERROR"
    /\ AllInstalled

ExpectedDetail(exc) ==
    IF exc.kind = "object" /\ "std::system_error" \in exc.bases
    THEN "std::system_error: \"" \o exc.code.message \o "\" (" \o exc.code.category
         \o ":" \o ToString(exc.code.value) \o ")"
    ELSE IF exc.kind = "object" /\ "std::exception" \in exc.bases
    THEN exc.type \o ": \"" \o exc.what \o "\""
    ELSE IF exc.kind = "cstring"
    THEN "exception (const char*): \""
         \o (IF exc.text = NULL THEN "<null>" ELSE exc.text[1]) \o "\""
    ELSE "unknown exception"

\* C6: a terminate hook entered with an exception in flight hands off once,
\* with the category std::terminate() and the detail of the first probe that
\* matches: a system_error (or a class derived from it) with its message,
\* category name and code, any other standard exception with its class name
\* and message, a C string with its text or <null>, anything else as unknown
\* exception.
C6_TerminateProbes ==
    /\ \A i \in HandoffsOf("onTerminate") :
          LET h == handoffs[i]
          IN  h.ev.exc # NULL =>
                /\ h.fmt[1].what = "std::terminate()"
                /\ h.fmt[1].detail = Some(ExpectedDetail(h.ev.exc[1]))
                /\ h.reason = REASON_PREFIX \o "std::terminate() ("
                                \o ExpectedDetail(h.ev.exc[1]) \o ")"
                /\ (h.ev.exc[1] = SysErrBrokenPipe =>
                      h.fmt[1].detail
                        = Some("std::system_error: \"Broken pipe\" (generic:32)"))
                /\ (h.ev.exc[1] = RuntimeErrorWhoopsi =>
                      h.fmt[1].detail = Some("std::runtime_error: \"whoopsi!\""))
                /\ (h.ev.exc[1] = IntExc => h.fmt[1].detail = Some("unknown exception"))
    /\ (stack # <<>> /\ stack[1].fn = "onTerminate") =>
          /\ Cardinality(HandoffsOf("onTerminate")) = 1
          /\ \A i \in HandoffsOf("onTerminate") : handoffs[i].ev = stack[1].ev

\* C6 witness: a system_error escaped, was handed off and reported
C6_Witness ==
    /\ proc = "reported"
    /\ Len(handoffs) = 1
    /\ handoffs[1].caller = "onTerminate"
    /\ handoffs[1].ev.exc = Some(SysErrBrokenPipe)

InSetupFailure == stack # <<>> /\ stack[1].fn = "HandlerSetup"

\* C7: when sigaltstack or a sigaction fails, the constructor hands off once,
\* with a reason made of the failing call, its argument and the text of errno;
\* the calls made are those up to the failing one, nothing later is registered,
\* nothing is registered afterwards, and the process ends.
C7_SetupFailure ==
    /\ [](InSetupFailure =>
            LET ev == stack[1].ev
                steps == InstallSteps(platform)
                failing == steps[ev.step]
            IN  /\ failing.call \in {"sigaltstack", "sigaction"}
                /\ Cardinality(HandoffsOf("HandlerSetup")) = 1
                /\ handoffs[1].caller = "HandlerSetup"
                /\ handoffs[1].reason
                     = failing.call \o "(" \o ToString(failing.arg) \o ") failed: "
                       \o Strerror(ev.errno)
                /\ handoffs[1].printTrace
                /\ ~handoffs[1].inSignalHandler
                /\ oscalls = SubSeq(steps, 1, ev.step)
                /\ (failing.call = "sigaltstack" => altStack = "none")
                /\ \A k \in ev.step..Len(steps) :
                      steps[k].call = "sigaction" => sigHandlers[steps[k].arg] = "SIG_DFL")
    /\ [][InSetupFailure => UNCHANGED <<regvars, nLive>>]_vars
    /\ (InSetupFailure ~> Terminated)

\* C7 witness: sigaction(SIGBUS) failed with EINVAL and the failure was reported
C7_Witness ==
    /\ InSetupFailure
    /\ proc = "reported"
    /\ handoffs[1].reason = "sigaction(7) failed: Invalid argument"
    /\ sigHandlers[SIGSEGV] = "signalHandler"
    /\ sigHandlers[SIGBUS] = "SIG_DFL"

\* the detail the lookup gives each sub-reason code, NULL outside the table
FixedDetail(sig, code) ==
    CASE sig = 11 /\ code = 1 -> Some("address not mapped to object")
      [] sig = 11 /\ code = 2 -> Some("invalid permissions for mapped object")
      [] sig = 11 /\ code = 3 -> Some("failed address bound checks")
      [] sig = 11 /\ code = 4 -> Some("access was denied by memory protection keys")
      [] sig = 7 /\ code = 1 -> Some("invalid address alignment")
      [] sig = 7 /\ code = 2 -> Some("nonexistent physical address")
      [] sig = 7 /\ code = 3 -> Some("object-specific hardware error")
      [] sig = 7 /\ code = 4 -> Some("hardware memory error consumed on a machine check")
      [] sig = 7 /\ code = 5 ->
            Some("hardware memory error detected in process but not consumed")
      [] sig = 4 /\ code = 1 -> Some("illegal opcode")
      [] sig = 4 /\ code = 2 -> Some("illegal operand")
      [] sig = 4 /\ code = 3 -> Some("illegal addressing mode")
      [] sig = 4 /\ code = 4 -> Some("illegal trap")
      [] sig = 4 /\ code = 5 -> Some("privileged opcode")
      [] sig = 4 /\ code = 6 -> Some("privileged register")
      [] sig = 4 /\ code = 7 -> Some("coprocessor error")
      [] sig = 4 /\ code = 8 -> Some("internal stack error")
      [] sig = 8 /\ code = 1 -> Some("integer divide by zero")
      [] sig = 8 /\ code = 2 -> Some("integer overflow")
      [] sig = 8 /\ code = 3 -> Some("floating-point divide by zero")
      [] sig = 8 /\ code = 4 -> Some("floating-point overflow")
      [] sig = 8 /\ code = 5 -> Some("floating-point underflow")
      [] sig = 8 /\ code = 6 -> Some("floating-point inexact result")
      [] sig = 8 /\ code = 7 -> Some("floating-point invalid operation")
      [] sig = 8 /\ code = 8 -> Some("subscript out of range")
      [] OTHER -> NULL

\* the report shows the detail in parentheses after the category, or none
ShowsDetail(h, detail) ==
    LET head == REASON_PREFIX \o Taxonomy(h.ev.sig)
    IN  IF detail = NULL
        THEN h.reason = head \/ StartsWith(h.reason, head \o ",")
        ELSE StartsWith(h.reason, head \o " (" \o detail[1] \o ")")

\* the stack-overflow condition on a fault, in plain arithmetic
LooksLikeStackOverflow(ev) ==
    /\ ev.sig = 11
    /\ ev.si_code = 1
    /\ ev.ctx
    /\ ev.si_addr < ev.rsp
    /\ ev.rsp - ev.si_addr < 1024

\* C8 (as claimed): the detail of every POSIX report is the table's entry for
\* the signal and sub-reason code, and there is none for a code outside the
\* table or for SIGABRT.
C8_FixedDetailTable ==
    \A i \in HandoffsOf("signalHandler") :
        LET h == handoffs[i]
        IN  /\ h.fmt[1].detail = FixedDetail(h.ev.sig, h.ev.si_code)
            /\ ShowsDetail(h, FixedDetail(h.ev.sig, h.ev.si_code))

\* C8 (amended): the detail of every POSIX report is the table's entry for the
\* signal and sub-reason code, none for a code outside the table or for
\* SIGABRT, except that SIGSEGV with SEGV_MAPERR is reported as stack overflow
\* when the fault meets the stack-overflow condition.
C8_FixedDetailExceptStackOverflow ==
    \A i \in HandoffsOf("signalHandler") :
        LET h == handoffs[i]
            detail == IF LooksLikeStackOverflow(h.ev)
                      THEN Some("stack overflow")
                      ELSE FixedDetail(h.ev.sig, h.ev.si_code)
        IN  /\ h.fmt[1].detail = detail
            /\ ShowsDetail(h, detail)

\* C8 witness: an integer division by zero was handed off and reported
C8_Witness ==
    /\ proc = "reported"
    /\ Len(handoffs) = 1
    /\ handoffs[1].caller = "signalHandler"
    /\ handoffs[1].ev.sig = SIGFPE
    /\ handoffs[1].ev.si_code = FPE_INTDIV
    /\ StartsWith(handoffs[1].reason,
                  REASON_PREFIX \o "FLOATING POINT ERROR (integer divide by zero")

\* C9: a POSIX report has the detail stack overflow exactly when the signal is
\* SIGSEGV, the sub-reason SEGV_MAPERR, a context is there and the faulting
\* address is below the stack pointer by less than 1024; every other
\* SEGV_MAPERR keeps address not mapped to object.
C9_StackOverflowHeuristic ==
    \A i \in HandoffsOf("signalHandler") :
        LET h == handoffs[i]
        IN  /\ (h.fmt[1].detail = Some("stack overflow")) <=> LooksLikeStackOverflow(h.ev)
            /\ (h.ev.sig = 11 /\ h.ev.si_code = 1 /\ ~LooksLikeStackOverflow(h.ev))
                  => h.fmt[1].detail = Some("address not mapped to object")

\* C9 witness: a fault exactly 1024 below the stack pointer was handed off as
\* address not mapped to object
C9_Witness ==
    \E i \in HandoffsOf("signalHandler") :
        /\ handoffs[i].ev.sig = SIGSEGV
        /\ handoffs[i].ev.si_code = SEGV_MAPERR
        /\ handoffs[i].ev.ctx
        /\ handoffs[i].ev.rsp - handoffs[i].ev.si_addr = 1024
        /\ handoffs[i].fmt[1].detail = Some("address not mapped to object")

\* the arithmetic conditions both backends define
ArithmeticPairs ==
    {<<EXCEPTION_INT_DIVIDE_BY_ZERO, FPE_INTDIV>>,
     <<EXCEPTION_INT_OVERFLOW, FPE_INTOVF>>,
     <<EXCEPTION_FLT_DIVIDE_BY_ZERO, FPE_FLTDIV>>,
     <<EXCEPTION_FLT_OVERFLOW, FPE_FLTOVF>>,
     <<EXCEPTION_FLT_UNDERFLOW, FPE_FLTUND>>,
     <<EXCEPTION_FLT_INEXACT_RESULT, FPE_FLTRES>>,
     <<EXCEPTION_FLT_INVALID_OPERATION, FPE_FLTINV>>}

\* C10 (as claimed): for every arithmetic condition both backends define, the
\* exception filter passes formatReason the category and the detail that
\* signalHandler passes for the equivalent si_code of SIGFPE; an unrecognized
\* code is reported with its number as the detail.
C10_SameArithmeticDetail ==
    \A i \in HandoffsOf("onWindowsException") :
        LET h == handoffs[i]
        IN  /\ \A p \in ArithmeticPairs :
                  h.ev.code = p[1] =>
                     LET posix == SignalReason(SigEvent(SIGFPE, p[2], 0, TRUE, 0))
                     IN  /\ h.fmt # NULL
                         /\ h.fmt[1].what = posix.what
                         /\ h.fmt[1].detail = posix.detail
            /\ h.ev.code \in UnrecognizedCodes =>
                  h.fmt[1].detail = Some("exception code = " \o h.ev.code.dec)

\* the first captured frame that lies in the range of a resolved entry point
FirstMatchingFrame(ev) ==
    ev.frames[CHOOSE i \in 1..Len(ev.frames) :
                 /\ \E k \in 1..2 : <<i, k>> \in ProbeMatches(ev)
                 /\ \A j \in 1..(i - 1) : \A k \in 1..2 : <<j, k>> \notin ProbeMatches(ev)]

\* C11 (as claimed): a terminate hook entered without an exception in flight
\* on the platform with the backtrace probe hands off exactly once; the
\* category is PURE VIRTUAL FUNCTION CALL when the first matching frame of the
\* at most four captured lies in [addr, addr+64] of the pure-virtual entry
\* point and DELETED VIRTUAL FUNCTION CALL when it lies in that range of the
\* deleted-virtual entry point; with no matching frame, or without the
\* runtime library, the report is the generic std::terminate() one, and the
\* label of an entry point that could not be resolved is never used.
C11_BacktraceProbeLabels ==
    /\ \A i \in HandoffsOf("onTerminate") :
          LET h == handoffs[i]
              ev == h.ev
          IN  (platform = "win32" /\ ev.exc = NULL) =>
                /\ Len(ev.frames) <= lookBack
                /\ IF ev.libstdcpp /\ ProbeMatches(ev) # {}
                   THEN LET f == FirstMatchingFrame(ev)
                        IN  /\ (ev.pureAddr # 0 /\ NearSymbol(f, ev.pureAddr)) =>
                                  h.fmt[1].what = "PURE VIRTUAL FUNCTION CALL"
                            /\ (ev.deletedAddr # 0 /\ NearSymbol(f, ev.deletedAddr)) =>
                                  h.fmt[1].what = "DELETED VIRTUAL FUNCTION CALL"
                            /\ h.fmt[1].what \in {"PURE VIRTUAL FUNCTION CALL",
                                                  "DELETED VIRTUAL FUNCTION CALL"}
                            /\ h.fmt[1].addr = Some(f)
                   ELSE /\ h.fmt[1].what = "std::terminate()"
                        /\ h.fmt[1].detail = NULL
                        /\ h.reason = REASON_PREFIX \o "std::terminate()"
                /\ (ev.pureAddr = 0 => h.fmt[1].what # "PURE VIRTUAL FUNCTION CALL")
                /\ (ev.deletedAddr = 0 => h.fmt[1].what # "DELETED VIRTUAL FUNCTION CALL")
    /\ (stack # <<>> /\ stack[1].fn = "onTerminate" /\ stack[1].ev.exc = NULL) =>
          /\ Cardinality(HandoffsOf("onTerminate")) = 1
          /\ \A i \in HandoffsOf("onTerminate") : handoffs[i].ev = stack[1].ev

\* the kernel delivers a stack-exhaustion fault to thread t
ExhaustionDelivered(t) ==
    IF t = "main" THEN Deliver(StackExhaustion(t)) ELSE DeliverToThread(StackExhaustion(t))

\* after the step, thread t is in signalHandler for that fault, on memory
\* other than its exhausted stack
EnteredOnAltStack(t) ==
    LET frames == IF t = "main" THEN stack' ELSE workerStack'
    IN  /\ proc' = "running"
        /\ frames # <<>>
        /\ frames[Len(frames)].fn = "signalHandler"
        /\ frames[Len(frames)].ev = StackExhaustion(t)
        /\ HandlerStack(StackExhaustion(t)) # "stack of " \o t

\* C12 (as claimed): once the startup thread has installed everything, a
\* stack-exhaustion fault on any thread, the startup thread or another, enters
\* signalHandler on a registered alternate stack instead of ending the
\* process on entry; the handler then hands the fault off as a stack
\* overflow; and handlers of two threads that run at the same time never
\* use the same alternate-stack memory.
C12_AltStackOnAnyThread ==
    /\ [][\A t \in Threads :
            (AllInstalled /\ ExhaustionDelivered(t)) => EnteredOnAltStack(t)]_vars
    /\ [](\A i \in HandoffsOf("signalHandler") :
             handoffs[i].ev.exhausted =>
                handoffs[i].fmt[1].detail = Some("stack overflow"))
    /\ [](\A i \in HandlerFrames : \A j \in 1..Len(workerStack) :
             HandlerStack(stack[i].ev) # HandlerStack(workerStack[j].ev))

====
